---- MODULE Spec2Model ----
(***************************************************************************)
(* Model of the job queue and streaming-result delivery of the chat        *)
(* backend: QueueService (backend/app/services/queue_service.py) and the   *)
(* event producer AIService.generate_streaming_response                    *)
(* (backend/app/services/ai_service.py).                                   *)
(*                                                                         *)
(* The service runs on one asyncio event loop, so a coroutine runs without *)
(* interruption between two suspension points.  Each action below is one   *)
(* such uninterrupted stretch of a worker loop, a drain generator or a     *)
(* service call.  The awaits that suspend are the wait for a queued job,   *)
(* the asyncio.sleep calls of the producer, an empty result queue's get()  *)
(* and queue.join(); put() on the unbounded queues never suspends.         *)
(***************************************************************************)
EXTENDS Naturals, Sequences, FiniteSets

\* ------------------------------------------------------------------ bounds

\* Number of jobs submitted in one run of the whole service (Spec).
MaxJobs == 1

\* Number of jobs submitted in one run of the worker pool alone (PoolSpec):
\* more jobs than workers.
MaxPoolJobs == 3

\* Pool size handed to QueueService(max_workers=...).
max_workers == 2

\* Content chunks the generation backend streams for one job, at most.
MaxChunks == 1

\* Relevant document sections a search returns, at most (the code caps at 5).
MaxContexts == 1

\* Number of stream consumers that may be attached at the same time.
NumReaders == 1

\* Clients that stream one completed job at the same time.
NumClients == 2

\* Jobs submitted to the fairly scheduled pool that nobody streams.
MaxUnreadJobs == 2

Readers == 1 .. NumReaders

\* A job id no submission ever returned.
UnknownId == MaxJobs + MaxPoolJobs + 1

\* Python's None, for a job's optional fields.
NoneVal == "None"

\* ------------------------------------------------------------------ values

\* JobStatus
QUEUED == "queued"
PROCESSING == "processing"
COMPLETED == "completed"
FAILED == "failed"
CANCELLED == "cancelled"

JobStatus == {QUEUED, PROCESSING, COMPLETED, FAILED, CANCELLED}

\* Task types a caller may pass to enqueue: the one the worker routes, and
\* one it does not.
TaskTypes == {"chat", "other"}

\* The contents of the payload dict a caller passes to enqueue, and its
\* contents after the caller has changed it in place.
CallerPayload == "as submitted"
MutatedPayload == "changed by the caller"

\* Job(id, task_type, payload): the dataclass defaults.  payload is the
\* caller's dict object itself, so the field shows that object's contents.
Job(task_type) ==
  [ task_type    |-> task_type,
    payload      |-> CallerPayload,
    status       |-> QUEUED,
    error        |-> NoneVal,
    started_at   |-> NoneVal,
    completed_at |-> NoneVal ]

\* Job.to_dict: the snapshot a status request returns.  id and created_at
\* never change and are left out; payload and result are not part of it.
to_dict(job) ==
  [ task_type    |-> job.task_type,
    status       |-> job.status,
    error        |-> job.error,
    started_at   |-> job.started_at,
    completed_at |-> job.completed_at ]

\* StreamEventType
StreamEventType ==
  { "text", "tool_call", "citation", "ui_component", "error", "done" }

\* AIService._format_sse: a StreamEvent(type, data) serialised as one SSE
\* frame.  a, b and n are the fields of data the model distinguishes (two
\* texts and a number); ts is the event's timestamp, given by Stamp.
FormatSSE(type, a, b, n) ==
  [ form |-> "sse", type |-> type, a |-> a, b |-> b, n |-> n, ts |-> 0 ]

\* {'type': stage, 'status': status, 'message': ...}
ToolCallEv(stage, status) == FormatSSE("tool_call", stage, status, 0)

\* {'content': content, 'is_complete': is_complete}
TextEv(content, is_complete) == FormatSSE("text", content, is_complete, 0)

\* citation.model_dump(), number = i
CitationEv(number) == FormatSSE("citation", "", "", number)

\* ui_component.model_dump(), type = kind
UIComponentEv(kind) == FormatSSE("ui_component", kind, "", 0)

\* {'error': str(e), 'message': 'Failed to generate response'}
ErrorEv(msg) == FormatSSE("error", msg, "Failed to generate response", 0)

\* {'message': 'Stream complete', 'citation_count': len(citations)}
DoneEv(citation_count) == FormatSSE("done", "Stream complete", "", citation_count)

\* The dict the worker puts on a failed job's result queue:
\* {'type': 'error', 'error': str(e)}.
WorkerErrorItem(msg) ==
  [ form |-> "dict", type |-> "error", a |-> msg, b |-> "", n |-> 0, ts |-> 0 ]

\* The string get_result_stream yields for a job id with no result queue.
NotFoundItem ==
  [ form |-> "raw", type |-> "", a |-> "Job not found", b |-> "", n |-> 0, ts |-> 0 ]

\* The None the worker puts last: the end signal.
EndSignal ==
  [ form |-> "none", type |-> "", a |-> "", b |-> "", n |-> 0, ts |-> 0 ]

\* str(e) of the exceptions a job can end with.
ErrUnknownTask == "Unknown task type: other"
ErrStartup == "chat job could not start"
ErrNoMetadata == "'NoneType' object has no attribute 'page_count'"
ErrBackend == "generation backend failed"

\* ------------------------------------------------------------------ state

VARIABLES
  jobs,             \* QueueService._jobs: job id -> Job
  queue,            \* QueueService._queue: job ids waiting for a worker
  unfinished,       \* _queue's count of items put and not yet task_done
  result_queues,    \* keys of QueueService._result_queues
  chan,             \* job id -> contents of that job's result queue object
  workers_started,  \* QueueService._workers_started
  shutdown_flag,    \* QueueService._shutdown
  shutdown_pc,      \* the shutdown() call: "idle", "joining", "returned"
  workers,          \* the worker tasks created, in creation order
  readers,          \* the get_result_stream generators, latest call each
  emitted,          \* history: job id -> events its producer has yielded
  put_log,          \* history: job id -> every item put on its result queue
  ended             \* history: job id -> how its dispatch ended, if it has

vars == << jobs, queue, unfinished, result_queues, chan, workers_started,
           shutdown_flag, shutdown_pc, workers, readers, emitted, put_log,
           ended >>

\* The dispatch of a job has not ended; it returned; it raised err.
Running == [ out |-> "running", err |-> NoneVal ]
Ended(out, err) == [ out |-> out, err |-> err ]

\* A worker task: where its loop stands, the job it holds, the result queue
\* it looked up for that job, and the producer's locals that outlive a sleep.
WorkerTask ==
  [ pc |-> "created", job |-> UnknownId, rq |-> FALSE, nctx |-> 0, nchunks |-> 0 ]

\* A call of get_result_stream: where the generator stands, its job id, what
\* it has yielded, and (history) the job's status when it was called.
IdleReader == [ pc |-> "idle", job |-> UnknownId, got |-> << >>, at |-> NoneVal ]

Init ==
  /\ jobs = << >>
  /\ queue = << >>
  /\ unfinished = 0
  /\ result_queues = {}
  /\ chan = << >>
  /\ workers_started = FALSE
  /\ shutdown_flag = FALSE
  /\ shutdown_pc = "idle"
  /\ workers = << >>
  /\ readers = [ r \in Readers |-> IdleReader ]
  /\ emitted = << >>
  /\ put_log = << >>
  /\ ended = << >>


\* ------------------------------------------------------------ the producer

\* StreamEvent.timestamp: events of one job are stamped in the order made.
Stamp(evs, base) ==
  [ i \in 1 .. Len(evs) |-> [ evs[i] EXCEPT !.ts = base + i ] ]

\* A citation list that always holds one entry more than the contexts found.
CitationEvsExtra(n) == [ i \in 1 .. (n + 1) |-> CitationEv(i) ]

\* One citation event per context, numbered from 1.
CitationEvs(n) == [ i \in 1 .. n |-> CitationEv(i) ]

SourceCardEvs(k) == [ i \in 1 .. k |-> UIComponentEv("source_card") ]

\* Distinct documents among n contexts: one source card each.
CardCounts(n) == IF n = 0 THEN {0} ELSE 1 .. n

\* What one uninterrupted stretch of the producer does: the events it
\* yields, and how it ends: "return", "raise" (err is the exception's text),
\* or the sleep it suspends at (the worker's next pc).
Outcome(evs, out, err, nctx, nchunks) ==
  [ evs |-> evs, out |-> out, err |-> err, nctx |-> nctx, nchunks |-> nchunks ]

Prefixed(evs, outcomes) ==
  { [ o EXCEPT !.evs = evs \o o.evs ] : o \in outcomes }

\* generate_streaming_response after the text: citations, source cards, the
\* optional info card, the closing tool call and the done event.  The
\* metadata lookup of a source card fails when the documents were cleared
\* since the search; that exception leaves the generator.
SendFinal(nctx) ==
  { Outcome(CitationEvs(nctx) \o SourceCardEvs(k) \o info
              \o << ToolCallEv("generating_response", "completed"),
                    DoneEv(nctx) >>,
            "return", NoneVal, nctx, 0) :
      k \in CardCounts(nctx),
      info \in { << >>, << UIComponentEv("info_card") >> } }
  \cup
  ( IF nctx > 0
      THEN { Outcome(CitationEvs(nctx), "raise", ErrNoMetadata, nctx, 0) }
      ELSE {} )

\* The except clause without its return: after the error event the
\* generator goes on to the citations and the done event.
StreamResponseNoReturn(nctx, nchunks) ==
  ( IF nchunks < MaxChunks
      THEN { Outcome(<< TextEv("chunk", "false") >>, "streaming", NoneVal,
                     nctx, nchunks + 1) }
      ELSE {} )
  \cup Prefixed(<< ErrorEv(ErrBackend) >>, SendFinal(nctx))
  \cup Prefixed(<< TextEv("", "true") >>, SendFinal(nctx))

\* The try block around the backend call: the next content chunk (then a
\* sleep), a backend failure (caught: one error event, then return), or the
\* end of the stream (the closing text event, then SendFinal).
StreamResponse(nctx, nchunks) ==
  ( IF nchunks < MaxChunks
      THEN { Outcome(<< TextEv("chunk", "false") >>, "streaming", NoneVal,
                     nctx, nchunks + 1) }
      ELSE {} )
  \cup { Outcome(<< ErrorEv(ErrBackend) >>, "return", NoneVal, nctx, nchunks) }
  \cup Prefixed(<< TextEv("", "true") >>, SendFinal(nctx))

\* From the "generating response" tool call on.
GenerateResponse(nctx) ==
  Prefixed(<< ToolCallEv("generating_response", "in_progress") >>,
           StreamResponse(nctx, 0))

\* From the resumption after the first sleep: documents loaded or not.
AfterThinking ==
  Prefixed(<< ToolCallEv("thinking", "completed") >>,
           { Outcome(<< ToolCallEv("searching_documents", "in_progress") >>,
                     "searching", NoneVal, 0, 0) }
           \cup GenerateResponse(0))

\* From the resumption after the search sleep: n sections found.
AfterSearch ==
  UNION { Prefixed(<< ToolCallEv("searching_documents", "completed") >>,
                   IF n > 0
                     THEN { Outcome(<< ToolCallEv("retrieving_pdf", "in_progress") >>,
                                    "retrieving", NoneVal, n, 0) }
                     ELSE GenerateResponse(0)) :
          n \in 0 .. MaxContexts }

\* From the resumption after the retrieval sleep.
AfterRetrieve(nctx) ==
  Prefixed(<< ToolCallEv("retrieving_pdf", "completed") >>,
           GenerateResponse(nctx))

\* A dispatch that skips a task type it does not know instead of raising.
DispatchSkipsUnknown(task_type) ==
  IF task_type = "chat"
    THEN { Outcome(<< >>, "raise", ErrStartup, 0, 0),
           Outcome(<< ToolCallEv("thinking", "in_progress") >>,
                   "thinking", NoneVal, 0, 0) }
    ELSE { Outcome(<< >>, "return", NoneVal, 0, 0) }

\* The worker's dispatch up to the producer's first sleep: an unknown task
\* type raises, a chat job may fail before its first event (service or
\* history construction), and otherwise yields the first tool call.
Dispatch(task_type) ==
  IF task_type = "chat"
    THEN { Outcome(<< >>, "raise", ErrStartup, 0, 0),
           Outcome(<< ToolCallEv("thinking", "in_progress") >>,
                   "thinking", NoneVal, 0, 0) }
    ELSE { Outcome(<< >>, "raise", ErrUnknownTask, 0, 0) }



\* ------------------------------------------------------------- the service

\* Put as a stack would: the newest items first.
PutFront(q, items) == items \o q

\* asyncio.Queue.put on an unbounded queue: append, in call order.
Put(q, items) == q \o items

\* start_workers without its _workers_started guard.
StartWorkersUnguarded ==
  /\ workers_started' = TRUE
  /\ workers' = workers \o [ i \in 1 .. max_workers |-> WorkerTask ]
  /\ UNCHANGED << jobs, queue, unfinished, result_queues, chan, shutdown_flag,
                  shutdown_pc, readers, emitted, put_log, ended >>

\* QueueService.start_workers
StartWorkers ==
  /\ IF workers_started
       THEN UNCHANGED << workers_started, workers >>
       ELSE /\ workers_started' = TRUE
            /\ workers' = workers \o [ i \in 1 .. max_workers |-> WorkerTask ]
  /\ UNCHANGED << jobs, queue, unfinished, result_queues, chan, shutdown_flag,
                  shutdown_pc, readers, emitted, put_log, ended >>

\* An enqueue that leaves the result queue to be created later.
EnqueueNoChannel(task_type, limit) ==
  /\ Len(jobs) < limit
  /\ LET job_id == Len(jobs) + 1 IN
       /\ jobs' = Append(jobs, Job(task_type))
       /\ chan' = Append(chan, << >>)
       /\ queue' = Put(queue, << job_id >>)
       /\ unfinished' = unfinished + 1
  /\ emitted' = Append(emitted, << >>)
  /\ put_log' = Append(put_log, << >>)
  /\ ended' = Append(ended, Running)
  /\ UNCHANGED << result_queues, workers_started, shutdown_flag, shutdown_pc,
                  workers, readers >>

\* An enqueue that hands the job over to a waiting worker: it cannot
\* complete while no worker waits.
EnqueueHandsOver(task_type, limit) ==
  /\ Len(jobs) < limit
  /\ \E w \in DOMAIN workers : workers[w].pc = "wait"
  /\ LET job_id == Len(jobs) + 1 IN
       /\ jobs' = Append(jobs, Job(task_type))
       /\ result_queues' = result_queues \cup { job_id }
       /\ chan' = Append(chan, << >>)
       /\ queue' = Put(queue, << job_id >>)
       /\ unfinished' = unfinished + 1
  /\ emitted' = Append(emitted, << >>)
  /\ put_log' = Append(put_log, << >>)
  /\ ended' = Append(ended, Running)
  /\ UNCHANGED << workers_started, shutdown_flag, shutdown_pc, workers, readers >>

\* QueueService.enqueue: the new job's id is fresh (uuid4).  limit bounds the
\* number of submissions of a run.
Enqueue(task_type, limit) ==
  /\ Len(jobs) < limit
  /\ LET job_id == Len(jobs) + 1 IN
       /\ jobs' = Append(jobs, Job(task_type))
       /\ result_queues' = result_queues \cup { job_id }
       /\ chan' = Append(chan, << >>)
       /\ queue' = Put(queue, << job_id >>)
       /\ unfinished' = unfinished + 1
  /\ emitted' = Append(emitted, << >>)
  /\ put_log' = Append(put_log, << >>)
  /\ ended' = Append(ended, Running)
  /\ UNCHANGED << workers_started, shutdown_flag, shutdown_pc, workers, readers >>

\* The caller of enqueue changes, in place, the dict it passed as payload:
\* the job holds the same object.  The caller does not run inside a worker's
\* stretch from the receipt of a job to the producer's first sleep.
MutatePayload(j) ==
  /\ j \in DOMAIN jobs
  /\ jobs[j].payload = CallerPayload
  /\ \A w \in DOMAIN workers : workers[w].pc # "dequeued"
  /\ jobs' = [ jobs EXCEPT ![j].payload = MutatedPayload ]
  /\ UNCHANGED << queue, unfinished, result_queues, chan, workers_started,
                  shutdown_flag, shutdown_pc, workers, readers, emitted,
                  put_log, ended >>

\* `while not self._shutdown`: where the loop goes from its head.
LoopHead(flag) == IF flag THEN "exited" ELSE "wait"

\* A created worker task runs for the first time, up to its wait for a job.
WorkerBegin(w) ==
  /\ w \in DOMAIN workers
  /\ workers[w].pc = "created"
  /\ workers' = [ workers EXCEPT ![w].pc = LoopHead(shutdown_flag) ]
  /\ UNCHANGED << jobs, queue, unfinished, result_queues, chan, workers_started,
                  shutdown_flag, shutdown_pc, readers, emitted, put_log, ended >>

\* A wait for a job that has no timeout: on an empty queue the worker stays
\* in self._queue.get().
WorkerWaitsForever(w) ==
  /\ w \in DOMAIN workers
  /\ workers[w].pc = "wait"
  /\ queue = << >>
  /\ shutdown_flag
  /\ UNCHANGED vars

\* wait_for(self._queue.get(), 1.0) times out on an empty queue; the loop
\* head sends the worker back to the same wait unless shutdown is set.
WorkerTimeout(w) ==
  /\ w \in DOMAIN workers
  /\ workers[w].pc = "wait"
  /\ queue = << >>
  /\ shutdown_flag
  /\ workers' = [ workers EXCEPT ![w].pc = LoopHead(shutdown_flag) ]
  /\ UNCHANGED << jobs, queue, unfinished, result_queues, chan, workers_started,
                  shutdown_flag, shutdown_pc, readers, emitted, put_log, ended >>

\* The receipt without the status assignment.
MarkStartedOnly(job) ==
  [ job EXCEPT !.started_at = "set" ]

\* The job as the worker marks it on receipt.
MarkProcessing(job) ==
  [ job EXCEPT !.status = PROCESSING, !.started_at = "set" ]

\* A receipt that reads the head of the queue and leaves it there.
WorkerPeek(w) ==
  /\ w \in DOMAIN workers
  /\ workers[w].pc = "wait"
  /\ queue # << >>
  /\ LET j == Head(queue) IN
       /\ jobs' = [ jobs EXCEPT ![j] = MarkProcessing(@) ]
       /\ workers' = [ workers EXCEPT ![w] =
                         [ WorkerTask EXCEPT !.pc = "dequeued", !.job = j ] ]
  /\ UNCHANGED << queue, unfinished, result_queues, chan, workers_started,
                  shutdown_flag, shutdown_pc, readers, emitted, put_log, ended >>

\* The waiting worker receives the head of the queue.
WorkerDequeue(w) ==
  /\ w \in DOMAIN workers
  /\ workers[w].pc = "wait"
  /\ queue # << >>
  /\ LET j == Head(queue) IN
       /\ queue' = Tail(queue)
       /\ jobs' = [ jobs EXCEPT ![j] = MarkProcessing(@) ]
       /\ workers' = [ workers EXCEPT ![w] =
                         [ WorkerTask EXCEPT !.pc = "dequeued", !.job = j ] ]
  /\ UNCHANGED << unfinished, result_queues, chan, workers_started,
                  shutdown_flag, shutdown_pc, readers, emitted, put_log, ended >>

\* An except clause that records the error and forgets the status: the try
\* body's COMPLETED is what the status ends as.
MarkFinishedErrorOnly(job, out, err) ==
  IF out = "raise"
    THEN [ job EXCEPT !.status = COMPLETED, !.error = err, !.completed_at = "set" ]
    ELSE [ job EXCEPT !.status = COMPLETED, !.completed_at = "set" ]

\* A finally clause that does not stamp the end of the job.
MarkFinishedNoStamp(job, out, err) ==
  IF out = "raise"
    THEN [ job EXCEPT !.status = FAILED, !.error = err ]
    ELSE [ job EXCEPT !.status = COMPLETED ]

\* The job as the worker leaves it: the try body's last line or the except
\* clause, then the finally clause.
MarkFinished(job, out, err) ==
  IF out = "raise"
    THEN [ job EXCEPT !.status = FAILED, !.error = err, !.completed_at = "set" ]
    ELSE [ job EXCEPT !.status = COMPLETED, !.completed_at = "set" ]

\* The except clause without its put: a failure closes the queue silently.
ClosingItemsNoError(out, err, in_map) ==
  IF in_map THEN << EndSignal >> ELSE << >>

\* The end signal put by the except clause as well as by the finally clause.
ClosingItemsEndTwice(out, err, in_map) ==
  IF in_map
    THEN ( IF out = "raise" THEN << WorkerErrorItem(err), EndSignal >> ELSE << >> )
         \o << EndSignal >>
    ELSE << >>

\* The end signal put on the success path only, not in a finally clause.
ClosingItemsNoFinally(out, err, in_map) ==
  IF in_map
    THEN ( IF out = "raise" THEN << WorkerErrorItem(err) >> ELSE << EndSignal >> )
    ELSE << >>

\* What the except and finally clauses put on the job's result queue, given
\* whether the job id is (still) a key of _result_queues.
ClosingItems(out, err, in_map) ==
  IF in_map
    THEN ( IF out = "raise" THEN << WorkerErrorItem(err) >> ELSE << >> )
         \o << EndSignal >>
    ELSE << >>

\* A worker whose loop does not catch a job's exception: the job is marked
\* and its queue closed, and the worker task ends.
RunJobUncaught(w, o, has_rq) ==
  LET j       == workers[w].job
      stamped == Stamp(o.evs, Len(emitted[j]))
      is_end  == o.out \in { "return", "raise" }
      items   == ( IF has_rq THEN stamped ELSE << >> )
                 \o ( IF is_end
                        THEN ClosingItems(o.out, o.err, j \in result_queues)
                        ELSE << >> )
  IN
  /\ emitted' = [ emitted EXCEPT ![j] = @ \o stamped ]
  /\ chan' = [ chan EXCEPT ![j] = Put(@, items) ]
  /\ put_log' = [ put_log EXCEPT ![j] = @ \o items ]
  /\ IF is_end
       THEN /\ jobs' = [ jobs EXCEPT ![j] = MarkFinished(@, o.out, o.err) ]
            /\ unfinished' = unfinished - 1
            /\ workers' = [ workers EXCEPT ![w] =
                              [ WorkerTask EXCEPT !.pc =
                                  IF o.out = "raise" THEN "exited"
                                  ELSE LoopHead(shutdown_flag) ] ]
            /\ ended' = [ ended EXCEPT ![j] = Ended(o.out, o.err) ]
       ELSE /\ workers' = [ workers EXCEPT ![w] =
                              [ pc |-> o.out, job |-> j, rq |-> has_rq,
                                nctx |-> o.nctx, nchunks |-> o.nchunks ] ]
            /\ UNCHANGED << jobs, unfinished, ended >>
  /\ UNCHANGED << queue, result_queues, workers_started, shutdown_flag,
                  shutdown_pc, readers >>

\* One uninterrupted stretch of worker w running its job's producer with
\* outcome o; has_rq tells whether _process_chat_job found a result queue.
RunJob(w, o, has_rq) ==
  LET j       == workers[w].job
      stamped == Stamp(o.evs, Len(emitted[j]))
      is_end  == o.out \in { "return", "raise" }
      items   == ( IF has_rq THEN stamped ELSE << >> )
                 \o ( IF is_end
                        THEN ClosingItems(o.out, o.err, j \in result_queues)
                        ELSE << >> )
  IN
  /\ emitted' = [ emitted EXCEPT ![j] = @ \o stamped ]
  /\ chan' = [ chan EXCEPT ![j] = Put(@, items) ]
  /\ put_log' = [ put_log EXCEPT ![j] = @ \o items ]
  /\ IF is_end
       THEN /\ jobs' = [ jobs EXCEPT ![j] = MarkFinished(@, o.out, o.err) ]
            /\ unfinished' = unfinished - 1
            /\ workers' = [ workers EXCEPT ![w] =
                              [ WorkerTask EXCEPT !.pc = LoopHead(shutdown_flag) ] ]
            /\ ended' = [ ended EXCEPT ![j] = Ended(o.out, o.err) ]
       ELSE /\ workers' = [ workers EXCEPT ![w] =
                              [ pc |-> o.out, job |-> j, rq |-> has_rq,
                                nctx |-> o.nctx, nchunks |-> o.nchunks ] ]
            /\ UNCHANGED << jobs, unfinished, ended >>
  /\ UNCHANGED << queue, result_queues, workers_started, shutdown_flag,
                  shutdown_pc, readers >>

\* A dispatch that starts only once a consumer reads the job's result queue.
ProcessStartWhenRead(w) ==
  /\ w \in DOMAIN workers
  /\ workers[w].pc = "dequeued"
  /\ \E r \in DOMAIN readers :
       readers[r].pc = "reading" /\ readers[r].job = workers[w].job
  /\ \E o \in Dispatch(jobs[workers[w].job].task_type) :
       RunJob(w, o, workers[w].job \in result_queues)

\* The worker dispatches on the task type; a chat job runs to its first sleep.
ProcessStart(w) ==
  /\ w \in DOMAIN workers
  /\ workers[w].pc = "dequeued"
  /\ \E o \in Dispatch(jobs[workers[w].job].task_type) :
       RunJob(w, o, workers[w].job \in result_queues)

\* The producer resumes after the sleep that follows its first tool call.
ProducerAfterThinking(w) ==
  /\ w \in DOMAIN workers
  /\ workers[w].pc = "thinking"
  /\ \E o \in AfterThinking : RunJob(w, o, workers[w].rq)

\* The producer resumes after the sleep of the document search.
ProducerAfterSearch(w) ==
  /\ w \in DOMAIN workers
  /\ workers[w].pc = "searching"
  /\ \E o \in AfterSearch : RunJob(w, o, workers[w].rq)

\* The producer resumes after the sleep of the content retrieval.
ProducerAfterRetrieve(w) ==
  /\ w \in DOMAIN workers
  /\ workers[w].pc = "retrieving"
  /\ \E o \in AfterRetrieve(workers[w].nctx) : RunJob(w, o, workers[w].rq)

\* The producer resumes after the sleep that follows a text chunk.
ProducerNextChunk(w) ==
  /\ w \in DOMAIN workers
  /\ workers[w].pc = "streaming"
  /\ \E o \in StreamResponse(workers[w].nctx, workers[w].nchunks) :
       RunJob(w, o, workers[w].rq)

\* get_result_stream creating the queue it does not find (setdefault) and
\* waiting on it.
DrainStartCreates(r, job_id) ==
  /\ job_id \in DOMAIN jobs
  /\ readers[r].pc # "reading"
  /\ readers' = [ readers EXCEPT ![r] =
                    [ pc |-> "reading", job |-> job_id, got |-> << >>,
                      at |-> jobs[job_id].status ] ]
  /\ result_queues' = result_queues \cup { job_id }
  /\ UNCHANGED << jobs, queue, unfinished, chan, workers_started,
                  shutdown_flag, shutdown_pc, workers, emitted, put_log, ended >>

\* A drain that starts by putting back all that was ever put on the queue.
DrainStartReplays(r, job_id) ==
  /\ job_id \in (DOMAIN jobs) \cup { UnknownId }
  /\ readers[r].pc # "reading"
  /\ readers' = [ readers EXCEPT ![r] =
                    IF job_id \notin result_queues
                      THEN [ pc |-> "notfound", job |-> job_id,
                             got |-> << NotFoundItem >>, at |-> NoneVal ]
                      ELSE [ pc |-> "reading", job |-> job_id, got |-> << >>,
                             at |-> jobs[job_id].status ] ]
  /\ chan' = [ j \in DOMAIN chan |->
                 IF j = job_id /\ j \in result_queues THEN put_log[j] ELSE chan[j] ]
  /\ UNCHANGED << jobs, queue, unfinished, result_queues, workers_started,
                  shutdown_flag, shutdown_pc, workers, emitted, put_log, ended >>

\* get_result_stream, called: not found (one item, then the generator is
\* finished), or attached to the job's queue.
DrainStart(r, job_id) ==
  /\ job_id \in (DOMAIN jobs) \cup { UnknownId }
  /\ readers[r].pc # "reading"
  /\ readers' = [ readers EXCEPT ![r] =
                    IF job_id \notin result_queues
                      THEN [ pc |-> "notfound", job |-> job_id,
                             got |-> << NotFoundItem >>, at |-> NoneVal ]
                      ELSE [ pc |-> "reading", job |-> job_id, got |-> << >>,
                             at |-> jobs[job_id].status ] ]
  /\ UNCHANGED << jobs, queue, unfinished, result_queues, chan, workers_started,
                  shutdown_flag, shutdown_pc, workers, emitted, put_log, ended >>

\* A drain that reads the head of the queue and removes only the end signal.
DrainGetPeeks(r) ==
  /\ readers[r].pc = "reading"
  /\ chan[readers[r].job] # << >>
  /\ LET j      == readers[r].job
         result == Head(chan[j])
     IN
     IF result = EndSignal
       THEN /\ chan' = [ chan EXCEPT ![j] = Tail(@) ]
            /\ readers' = [ readers EXCEPT ![r].pc =
                              IF j \in result_queues THEN "done" ELSE "keyerror" ]
            /\ result_queues' = result_queues \ { j }
       ELSE /\ readers' = [ readers EXCEPT ![r].got = Append(@, result) ]
            /\ UNCHANGED << chan, result_queues >>
  /\ UNCHANGED << jobs, queue, unfinished, workers_started, shutdown_flag,
                  shutdown_pc, workers, emitted, put_log, ended >>

\* A drain that marks the job as delivered when it reads the end signal.
DrainGetMarksJob(r) ==
  /\ readers[r].pc = "reading"
  /\ chan[readers[r].job] # << >>
  /\ LET j      == readers[r].job
         result == Head(chan[j])
     IN
     /\ chan' = [ chan EXCEPT ![j] = Tail(@) ]
     /\ IF result = EndSignal
          THEN /\ readers' = [ readers EXCEPT ![r].pc =
                                 IF j \in result_queues THEN "done" ELSE "keyerror" ]
               /\ result_queues' = result_queues \ { j }
               /\ jobs' = [ jobs EXCEPT ![j].status = COMPLETED ]
          ELSE /\ readers' = [ readers EXCEPT ![r].got = Append(@, result) ]
               /\ UNCHANGED << result_queues, jobs >>
  /\ UNCHANGED << queue, unfinished, workers_started, shutdown_flag,
                  shutdown_pc, workers, emitted, put_log, ended >>

\* A drain whose cleanup also deletes the job from the registry.
DrainGetForgetsJob(r) ==
  /\ readers[r].pc = "reading"
  /\ chan[readers[r].job] # << >>
  /\ LET j      == readers[r].job
         result == Head(chan[j])
     IN
     /\ chan' = [ chan EXCEPT ![j] = Tail(@) ]
     /\ IF result = EndSignal
          THEN /\ readers' = [ readers EXCEPT ![r].pc =
                                 IF j \in result_queues THEN "done" ELSE "keyerror" ]
               /\ result_queues' = result_queues \ { j }
               /\ jobs' = [ k \in ( DOMAIN jobs ) \ { j } |-> jobs[k] ]
          ELSE /\ readers' = [ readers EXCEPT ![r].got = Append(@, result) ]
               /\ UNCHANGED << result_queues, jobs >>
  /\ UNCHANGED << queue, unfinished, workers_started, shutdown_flag,
                  shutdown_pc, workers, emitted, put_log, ended >>

\* get_result_stream, one turn of its loop on a non-empty queue: the end
\* signal ends the loop and deletes the map entry (KeyError if another drain
\* deleted it), anything else is yielded.
DrainGet(r) ==
  /\ readers[r].pc = "reading"
  /\ chan[readers[r].job] # << >>
  /\ LET j      == readers[r].job
         result == Head(chan[j])
     IN
     /\ chan' = [ chan EXCEPT ![j] = Tail(@) ]
     /\ IF result = EndSignal
          THEN /\ readers' = [ readers EXCEPT ![r].pc =
                                 IF j \in result_queues THEN "done" ELSE "keyerror" ]
               /\ result_queues' = result_queues \ { j }
          ELSE /\ readers' = [ readers EXCEPT ![r].got = Append(@, result) ]
               /\ UNCHANGED result_queues
  /\ UNCHANGED << jobs, queue, unfinished, workers_started, shutdown_flag,
                  shutdown_pc, workers, emitted, put_log, ended >>

\* A generator whose cleanup also runs when its consumer goes away
\* (try/finally around the loop).
DrainAbandonCleans(r) ==
  /\ readers[r].pc = "reading"
  /\ readers' = [ readers EXCEPT ![r].pc = "abandoned" ]
  /\ result_queues' = result_queues \ { readers[r].job }
  /\ UNCHANGED << jobs, queue, unfinished, chan, workers_started,
                  shutdown_flag, shutdown_pc, workers, emitted, put_log, ended >>

\* The consumer goes away while the generator is suspended: it is closed
\* without reaching its cleanup.
DrainAbandon(r) ==
  /\ readers[r].pc = "reading"
  /\ readers' = [ readers EXCEPT ![r].pc = "abandoned" ]
  /\ UNCHANGED << jobs, queue, unfinished, result_queues, chan, workers_started,
                  shutdown_flag, shutdown_pc, workers, emitted, put_log, ended >>

\* The stream route without its get_job lookup: every request opens a stream.
StreamWithoutLookup(r, job_id) == DrainStart(r, job_id)

\* The route GET /chat/stream/{job_id}: 404 when get_job finds no job (the
\* response carries no stream), otherwise a StreamingResponse over
\* get_result_stream.  The registry never loses a job, so the lookup and the
\* generator's first step are taken as one step, at the generator's start.
stream_response(r, job_id) ==
  /\ job_id \in 1 .. UnknownId
  /\ readers[r].pc # "reading"
  /\ IF job_id \notin DOMAIN jobs
       THEN /\ readers' = [ readers EXCEPT ![r] =
                              [ pc |-> "http404", job |-> job_id, got |-> << >>,
                                at |-> NoneVal ] ]
            /\ UNCHANGED << jobs, queue, unfinished, result_queues, chan,
                            workers_started, shutdown_flag, shutdown_pc, workers,
                            emitted, put_log, ended >>
       ELSE DrainStart(r, job_id)

\* The route GET /chat/job/{job_id}: 404 when get_job finds no job, otherwise
\* job.to_dict(), of which the status is kept.
get_job_status(r, job_id) ==
  /\ job_id \in 1 .. UnknownId
  /\ readers[r].pc # "reading"
  /\ readers' = [ readers EXCEPT ![r] =
                    IF job_id \notin DOMAIN jobs
                      THEN [ pc |-> "status404", job |-> job_id, got |-> << >>,
                             at |-> NoneVal ]
                      ELSE [ pc |-> "status200", job |-> job_id, got |-> << >>,
                             at |-> jobs[job_id].status ] ]
  /\ UNCHANGED << jobs, queue, unfinished, result_queues, chan, workers_started,
                  shutdown_flag, shutdown_pc, workers, emitted, put_log, ended >>

\* A shutdown that sets the flag and returns without joining the queue.
ShutdownWithoutJoin ==
  /\ shutdown_pc = "idle"
  /\ shutdown_flag' = TRUE
  /\ shutdown_pc' = "returned"
  /\ UNCHANGED << jobs, queue, unfinished, result_queues, chan, workers_started,
                  workers, readers, emitted, put_log, ended >>

\* QueueService.shutdown up to queue.join(), which returns at once when
\* nothing is unfinished.
ShutdownCall ==
  /\ shutdown_pc = "idle"
  /\ shutdown_flag' = TRUE
  /\ shutdown_pc' = IF unfinished = 0 THEN "returned" ELSE "joining"
  /\ UNCHANGED << jobs, queue, unfinished, result_queues, chan, workers_started,
                  workers, readers, emitted, put_log, ended >>

\* queue.join() returns.  Its waiter is made ready by the task_done that
\* brings the count to zero and runs before any worker made ready by a later
\* put (the loop runs ready callbacks in order), so no dequeue comes between
\* the two and the return is taken at a moment of count zero.
ShutdownReturn ==
  /\ shutdown_pc = "joining"
  /\ unfinished = 0
  /\ shutdown_pc' = "returned"
  /\ UNCHANGED << jobs, queue, unfinished, result_queues, chan, workers_started,
                  shutdown_flag, workers, readers, emitted, put_log, ended >>

\* --------------------------------------------------------- specifications

\* Indices of worker tasks: start_workers creates max_workers of them.
WorkerIds == 1 .. (2 * max_workers)

WorkerStep(w) ==
  \/ WorkerBegin(w)
  \/ WorkerTimeout(w)
  \/ WorkerDequeue(w)
  \/ ProcessStart(w)
  \/ ProducerAfterThinking(w)
  \/ ProducerAfterSearch(w)
  \/ ProducerAfterRetrieve(w)
  \/ ProducerNextChunk(w)

\* The worker pool and the registry: submissions, workers, shutdown.
PoolStep(limit) ==
  \/ StartWorkers
  \/ \E t \in TaskTypes : Enqueue(t, limit)
  \/ \E w \in WorkerIds : WorkerStep(w)
  \/ ShutdownCall
  \/ ShutdownReturn

\* The stream consumers.
DrainStep ==
  \/ \E r \in Readers : \E id \in 1 .. UnknownId : DrainStart(r, id)
  \/ \E r \in Readers : DrainGet(r)
  \/ \E r \in Readers : DrainAbandon(r)

\* The whole service.
Next == PoolStep(MaxJobs) \/ DrainStep

Spec == Init /\ [][Next]_vars

\* The worker pool alone, with more jobs than workers.
PoolNext == PoolStep(MaxPoolJobs)

PoolSpec == Init /\ [][PoolNext]_vars

\* Fair scheduling: the event loop runs every task that can run, so a worker
\* step or a drain's get that stays possible is eventually taken (a producer
\* that is resumed terminates its stretch).  Submissions, start_workers,
\* shutdown and a consumer's going away are the environment's choice.
Fairness ==
  /\ \A w \in WorkerIds : WF_vars(WorkerStep(w))
  /\ \A r \in Readers : WF_vars(DrainGet(r))

FairSpec == Spec /\ Fairness

FairPoolSpec == PoolSpec /\ Fairness

\* The worker pool, fairly scheduled, where queue.join() also returns as soon
\* as it can: lifespan awaits shutdown() and nothing else delays it.
ShutdownFairness ==
  /\ Fairness
  /\ WF_vars(ShutdownReturn)

FairShutdownSpec == PoolSpec /\ ShutdownFairness

\* The worker pool, fairly scheduled, with jobs that no client streams.
UnreadNext == PoolStep(MaxUnreadJobs)

UnreadSpec == Init /\ [][UnreadNext]_vars /\ Fairness

\* The worker pool with a caller that keeps, and may change, the payload
\* dict it has submitted.
PayloadNext ==
  \/ PoolStep(MaxJobs)
  \/ \E j \in 1 .. MaxJobs : MutatePayload(j)

PayloadSpec == Init /\ [][PayloadNext]_vars

\* The service behind its HTTP routes: every drain is opened by a stream
\* request, and a client may ask for a job's status.
RouteStep ==
  \/ \E r \in Readers : \E id \in 1 .. UnknownId : stream_response(r, id)
  \/ \E r \in Readers : \E id \in 1 .. UnknownId : get_job_status(r, id)
  \/ \E r \in Readers : DrainGet(r)
  \/ \E r \in Readers : DrainAbandon(r)

RouteNext == PoolStep(MaxJobs) \/ RouteStep

RouteSpec == Init /\ [][RouteNext]_vars

\* Several clients, each streaming once a job that has already completed.
Clients == 1 .. NumClients

ReplayInit ==
  /\ jobs = << >>
  /\ queue = << >>
  /\ unfinished = 0
  /\ result_queues = {}
  /\ chan = << >>
  /\ workers_started = FALSE
  /\ shutdown_flag = FALSE
  /\ shutdown_pc = "idle"
  /\ workers = << >>
  /\ readers = [ c \in Clients |-> IdleReader ]
  /\ emitted = << >>
  /\ put_log = << >>
  /\ ended = << >>

ReplayStep ==
  \/ \E c \in Clients : \E id \in 1 .. MaxJobs :
       /\ id \in DOMAIN jobs
       /\ jobs[id].status = COMPLETED
       /\ readers[c].pc = "idle"
       /\ stream_response(c, id)
  \/ \E c \in Clients : DrainGet(c)

\* A worker's steps while the service is up: a timeout of its wait then
\* brings it back to the same wait.
WorkerServe(w) ==
  \/ WorkerBegin(w)
  \/ WorkerDequeue(w)
  \/ ProcessStart(w)
  \/ ProducerAfterThinking(w)
  \/ ProducerAfterSearch(w)
  \/ ProducerAfterRetrieve(w)
  \/ ProducerNextChunk(w)

\* The service is not shut down while the clients stream.
ReplayNext ==
  \/ StartWorkers
  \/ \E t \in TaskTypes : Enqueue(t, MaxJobs)
  \/ \E w \in WorkerIds : WorkerServe(w)
  \/ ReplayStep

ReplaySpec == ReplayInit /\ [][ReplayNext]_vars

\* Drains of one job run one after another: a client calls get_result_stream
\* once, and only when no other drain is active and the clients before it
\* have called.
RestartStep ==
  \/ \E c \in Clients : \E id \in 1 .. MaxJobs :
       /\ readers[c].pc = "idle"
       /\ \A d \in Clients :
            /\ readers[d].pc # "reading"
            /\ d < c => readers[d].pc # "idle"
       /\ DrainStart(c, id)
  \/ \E c \in Clients : DrainGet(c)
  \/ \E c \in Clients : DrainAbandon(c)

RestartNext ==
  \/ StartWorkers
  \/ \E t \in TaskTypes : Enqueue(t, MaxJobs)
  \/ \E w \in WorkerIds : WorkerServe(w)
  \/ RestartStep

RestartSpec == ReplayInit /\ [][RestartNext]_vars

\* Drains of one job active at the same time: each client calls
\* get_result_stream once, at any moment of the job's life, the clients
\* being numbered in the order of their calls.
ConcurrentStep ==
  \/ \E c \in Clients : \E id \in 1 .. MaxJobs :
       /\ readers[c].pc = "idle"
       /\ \A d \in Clients : d < c => readers[d].pc # "idle"
       /\ DrainStart(c, id)
  \/ \E c \in Clients : DrainGet(c)

\* The job is run by the first worker task; the other tasks, which would
\* only wait, are left out of the schedule.
ConcurrentNext ==
  \/ StartWorkers
  \/ \E t \in TaskTypes : Enqueue(t, MaxJobs)
  \/ WorkerServe(1)
  \/ ConcurrentStep

ConcurrentSpec == ReplayInit /\ [][ConcurrentNext]_vars

\* Clients that open their streams as soon as the job is submitted, while it
\* is still Queued, and one more client that asks for the job's status at any
\* moment: before, while and after the others stream it, or without them.
Observer == NumClients + 1

SnapshotInit ==
  /\ jobs = << >>
  /\ queue = << >>
  /\ unfinished = 0
  /\ result_queues = {}
  /\ chan = << >>
  /\ workers_started = FALSE
  /\ shutdown_flag = FALSE
  /\ shutdown_pc = "idle"
  /\ workers = << >>
  /\ readers = [ c \in 1 .. Observer |-> IdleReader ]
  /\ emitted = << >>
  /\ put_log = << >>
  /\ ended = << >>

SnapshotStep ==
  \/ \E c \in Clients : \E id \in 1 .. MaxJobs :
       /\ readers[c].pc = "idle"
       /\ \A d \in Clients : d < c => readers[d].pc # "idle"
       /\ id \in DOMAIN jobs
       /\ jobs[id].status = QUEUED
       /\ DrainStart(c, id)
  \/ \E c \in Clients : DrainGet(c)
  \/ \E id \in 1 .. MaxJobs :
       /\ id \in DOMAIN jobs
       /\ get_job_status(Observer, id)

SnapshotNext ==
  \/ StartWorkers
  \/ \E t \in TaskTypes : Enqueue(t, MaxJobs)
  \/ WorkerServe(1)
  \/ SnapshotStep

SnapshotSpec == SnapshotInit /\ [][SnapshotNext]_vars

\* ------------------------------------------------------------------ claims

Terminal(j) == jobs[j].status \in { COMPLETED, FAILED }

IsPrefix(s, t) == Len(s) <= Len(t) /\ SubSeq(t, 1, Len(s)) = s

\* Items taken from job j's result queue so far, by any drain.
Popped(j) == Len(put_log[j]) - Len(chan[j])

Attached(r) == readers[r].pc \in { "reading", "done", "abandoned", "keyerror" }

\* Drain r is the only drain that has taken items from its job's queue.
SoleDrain(r) ==
  Popped(readers[r].job) =
    Len(readers[r].got) + ( IF readers[r].pc = "done" THEN 1 ELSE 0 )

\* C1: a single drain of a job whose producer finishes normally has, at every
\* moment, received a prefix of the events the producer emitted, in producer
\* order, and when it terminates it has received exactly all of them; this
\* holds whether the drain started while the job was queued, processing or
\* completed.
C1_DrainYieldsEmitted ==
  \A r \in Readers :
    ( Attached(r) /\ SoleDrain(r) /\ ended[readers[r].job].out # "raise" ) =>
      /\ IsPrefix(readers[r].got, emitted[readers[r].job])
      /\ ( readers[r].pc = "done" =>
             /\ ended[readers[r].job].out = "return"
             /\ readers[r].got = emitted[readers[r].job] )

\* A drain attached while the job was processing has terminated with all the
\* events of a successful run.
C1_Witness ==
  \E r \in Readers :
    /\ readers[r].pc = "done"
    /\ readers[r].at = PROCESSING
    /\ SoleDrain(r)
    /\ ended[readers[r].job].out = "return"
    /\ readers[r].got = emitted[readers[r].job]
    /\ Len(readers[r].got) > MaxChunks + 5

\* The status changes the code may make to one job.
StatusSteps ==
  { << QUEUED, PROCESSING >>, << PROCESSING, COMPLETED >>,
    << PROCESSING, FAILED >> }

\* C2: a job starts Queued and its status only ever moves Queued ->
\* Processing -> Completed or Failed: no step skips Processing, returns to an
\* earlier status or leaves Completed or Failed.
C2_StatusOrder ==
  [][ /\ \A j \in DOMAIN jobs :
           /\ j \in DOMAIN jobs'
           /\ \/ jobs'[j].status = jobs[j].status
              \/ << jobs[j].status, jobs'[j].status >> \in StatusSteps
      /\ \A j \in (DOMAIN jobs') \ (DOMAIN jobs) : jobs'[j].status = QUEUED
    ]_vars

\* One job has completed and another has failed.
C2_Witness ==
  /\ \E j \in DOMAIN jobs : jobs[j].status = COMPLETED
  /\ \E j \in DOMAIN jobs : jobs[j].status = FAILED

\* Worker tasks that hold a job.
Busy(w) == workers[w].job \in DOMAIN jobs

\* C3: at most max_workers jobs are Processing, however many are submitted;
\* there are never more than max_workers worker loops, whatever the number
\* of start_workers calls; every Processing job is held by exactly one
\* worker, and a worker holds one job from its dequeue to that job's end.
C3_AtMostNProcessing ==
  /\ Cardinality({ j \in DOMAIN jobs : jobs[j].status = PROCESSING }) <= max_workers
  /\ Len(workers) <= max_workers
  /\ \A j \in DOMAIN jobs :
       jobs[j].status = PROCESSING <=>
         \E w \in DOMAIN workers : workers[w].job = j
  /\ \A v, w \in DOMAIN workers :
       ( Busy(v) /\ workers[v].job = workers[w].job ) => v = w
  /\ \A w \in DOMAIN workers :
       Busy(w) <=> workers[w].pc \notin { "created", "wait", "exited" }

\* All workers are busy and a further job waits in the queue.
C3_Witness ==
  /\ Cardinality({ j \in DOMAIN jobs : jobs[j].status = PROCESSING }) = max_workers
  /\ Len(jobs) > max_workers
  /\ queue # << >>

\* C4: with the workers started, terminating producers and fair scheduling,
\* every submitted job eventually reaches Completed or Failed.
C4_EveryJobEnds ==
  \A j \in 1 .. MaxPoolJobs :
    [] ( ( workers_started /\ j \in DOMAIN jobs ) =>
           <> ( j \in DOMAIN jobs /\ Terminal(j) ) )

\* C5: when a job's dispatch raises, the job is Failed, job.error is the
\* exception's text, and the job's queue has received the events already
\* pushed, then exactly one error item with that text, then the end signal.
C5_RaiseMarksFailed ==
  \A j \in DOMAIN jobs :
    ended[j].out = "raise" =>
      /\ jobs[j].status = FAILED
      /\ jobs[j].error = ended[j].err
      /\ put_log[j] =
           emitted[j] \o << WorkerErrorItem(ended[j].err), EndSignal >>

\* A producer has raised after it had pushed events.
C5_Witness ==
  \E j \in DOMAIN jobs :
    /\ ended[j].out = "raise"
    /\ Len(emitted[j]) > 0
    /\ jobs[j].status = FAILED

ErrorItems(j) ==
  { i \in DOMAIN put_log[j] : put_log[j][i].type = "error" }

\* C6: a job whose stream holds an Error event ends Failed, with job.error
\* the (non-empty) message of that event, never Completed.
C6_ErrorEventMeansFailed ==
  \A j \in DOMAIN jobs :
    ( Terminal(j) /\ ErrorItems(j) # {} ) =>
      /\ jobs[j].status = FAILED
      /\ \A i \in ErrorItems(j) : jobs[j].error = put_log[j][i].a

\* C7: in all that is ever put on a job's queue, an Error or Done event is
\* the last item before the end signal; so there is at most one of them, and
\* nothing (no Done either) follows an Error.
C7_TerminalEventIsLast ==
  \A j \in DOMAIN jobs :
    \A i \in DOMAIN put_log[j] :
      put_log[j][i].type \in { "error", "done" } =>
        /\ i + 1 = Len(put_log[j])
        /\ put_log[j][i + 1] = EndSignal

\* One job's stream ended with the producer's own Error event after other
\* events, another job's with Done.
C7_Witness ==
  /\ \E j \in DOMAIN jobs : \E i \in DOMAIN put_log[j] :
       i > 1 /\ put_log[j][i].type = "error" /\ put_log[j][i].form = "sse"
  /\ \E j \in DOMAIN jobs : \E i \in DOMAIN put_log[j] :
       put_log[j][i].type = "done"

EndSignals(j) == { i \in DOMAIN put_log[j] : put_log[j][i] = EndSignal }

\* C8: a job's queue receives the end signal exactly once, when the job's
\* dispatch ends (by return or by raise), as its last item: none before the
\* end, and nothing after it.
C8_EndSignalOnce ==
  \A j \in DOMAIN jobs :
    /\ EndSignals(j) =
         ( IF ended[j].out = "running" THEN {} ELSE { Len(put_log[j]) } )
    /\ Terminal(j) <=> ended[j].out # "running"

\* Both paths have closed a queue: a job failed after pushing events and a
\* job completed.
C8_Witness ==
  /\ \E j \in DOMAIN jobs :
       /\ ended[j].out = "raise"
       /\ Len(emitted[j]) > 0
       /\ EndSignals(j) = { Len(put_log[j]) }
  /\ \E j \in DOMAIN jobs :
       /\ ended[j].out = "return"
       /\ EndSignals(j) = { Len(put_log[j]) }

\* C9: under fair scheduling, a drain attached to the queue of a job that a
\* worker has dequeued does not wait forever: it leaves its loop, on the
\* failure path as on the success path, unless another drain has taken the
\* end signal and released the queue.
C9_DrainTerminates ==
  \A r \in Readers :
    [] ( ( readers[r].pc = "reading" /\ jobs[readers[r].job].status # QUEUED ) =>
           <> ( \/ readers[r].pc # "reading"
                \/ readers[r].job \notin result_queues ) )

\* A drain has read the end signal of a job that failed.
C9_Witness ==
  \E r \in Readers :
    /\ readers[r].pc = "done"
    /\ jobs[readers[r].job].status = FAILED

\* C10: a drain called for a job id that is no key of the queue map (never
\* submitted, or released by an earlier drain) yields the one not-found item
\* and is finished, waiting on no queue, and changes nothing of the registry,
\* the dispatch queue or the result queues; a drain waits only on a queue
\* that the map holds.
C10_NotFoundDrain ==
  [][ \A r \in Readers :
        ( readers'[r] # readers[r] /\ readers[r].pc # "reading" ) =>
          IF readers'[r].job \in result_queues
            THEN readers'[r].pc = "reading"
            ELSE /\ readers'[r].pc = "notfound"
                 /\ readers'[r].got = << NotFoundItem >>
                 /\ UNCHANGED << jobs, queue, unfinished, result_queues, chan >>
    ]_vars

\* A drain of a submitted job found its queue released by an earlier drain.
C10_Witness ==
  \E r \in Readers :
    /\ readers[r].pc = "notfound"
    /\ readers[r].job \in DOMAIN jobs
    /\ Terminal(readers[r].job)
    /\ readers[r].got = << NotFoundItem >>

\* C11: when two clients stream a job that is already Completed, each drain
\* either is answered not-found alone, or is still being served, or has
\* terminated with the full sequence of the producer's events: no drain ends
\* with a part of the sequence, and no drain is left waiting on a queue that
\* is empty and released.
C11_ReplayFullOrNotFound ==
  \A c \in DOMAIN readers :
    \/ readers[c].pc = "idle"
    \/ /\ readers[c].pc = "notfound"
       /\ readers[c].got = << NotFoundItem >>
    \/ /\ readers[c].pc = "reading"
       /\ IsPrefix(readers[c].got, emitted[readers[c].job])
       /\ \/ chan[readers[c].job] # << >>
          \/ readers[c].job \in result_queues
    \/ /\ readers[c].pc = "done"
       /\ readers[c].got = emitted[readers[c].job]

\* A request (stream or status) answered 404.
NotFoundAtBoundary(rd) == rd.pc \in { "http404", "status404" } /\ rd.got = << >>

\* C12: a stream or status request is answered 404 exactly when its job id
\* is not in the registry; such a request attaches no drain, produces no
\* stream item and leaves the registry, the dispatch queue and every result
\* queue as they were.
C12_UnknownJobIs404 ==
  [][ \A r \in Readers :
        ( readers'[r] # readers[r] /\ readers[r].pc # "reading" ) =>
          IF readers'[r].job \in DOMAIN jobs
            THEN readers'[r].pc \notin { "http404", "status404" }
            ELSE /\ NotFoundAtBoundary(readers'[r])
                 /\ UNCHANGED << jobs, queue, unfinished, result_queues, chan,
                                 put_log >>
    ]_vars

\* A stream request for an unknown id was answered 404 while a submitted
\* job's result queue was in use.
C12_Witness ==
  \E r \in Readers :
    /\ readers[r].pc = "http404"
    /\ readers[r].job \notin DOMAIN jobs
    /\ readers[r].got = << >>
    /\ \E j \in result_queues : chan[j] # << >>

\* C13: a stream request for a submitted job whose result queue has been
\* released is answered 404 like a request for an unknown id, and is not
\* given a not-found item on an opened stream.
C13_ReleasedIs404 ==
  \A r \in Readers :
    ( /\ readers[r].pc \in { "notfound", "http404" }
      /\ readers[r].job \in DOMAIN jobs
      /\ readers[r].job \notin result_queues ) =>
      NotFoundAtBoundary(readers[r])

\* C14: a job whose task type is not "chat" invokes no producer; once a
\* worker has dispatched it, it is Failed, job.error names the unknown type,
\* and its result queue has received exactly one error item and the end
\* signal.  The worker stays in its loop: a worker leaves the loop only when
\* shutdown is set.
C14_UnknownTypeFails ==
  /\ \A j \in DOMAIN jobs :
       jobs[j].task_type # "chat" =>
         /\ emitted[j] = << >>
         /\ jobs[j].status # COMPLETED
         /\ IF ended[j].out = "running"
              THEN put_log[j] = << >>
              ELSE /\ jobs[j].status = FAILED
                   /\ jobs[j].error = ErrUnknownTask
                   /\ put_log[j] = << WorkerErrorItem(ErrUnknownTask), EndSignal >>
  /\ \A w \in DOMAIN workers :
       /\ ( Busy(w) /\ jobs[workers[w].job].task_type # "chat" ) =>
            workers[w].pc = "dequeued"
       /\ workers[w].pc = "exited" => shutdown_flag

\* More jobs of an unknown type than there are workers have all failed, so a
\* worker has taken a further job after one of them, and the service is up.
C14_Witness ==
  /\ Len(jobs) > max_workers
  /\ \A j \in DOMAIN jobs :
       jobs[j].task_type # "chat" /\ jobs[j].status = FAILED
  /\ ~ shutdown_flag

\* C15: the step in which a job becomes Failed changes no other job (its
\* status, error, timestamps, events and result queue stay as they were),
\* leaves the dispatch queue and the other workers alone, and puts the worker
\* that ran the job back at its wait for the next job (or, with shutdown
\* set, at the end of its loop).
C15_FailureIsContained ==
  [][ \A j \in DOMAIN jobs :
        ( jobs[j].status # FAILED /\ jobs'[j].status = FAILED ) =>
          /\ \A k \in (DOMAIN jobs) \ { j } :
               /\ jobs'[k] = jobs[k]
               /\ chan'[k] = chan[k]
               /\ put_log'[k] = put_log[k]
               /\ emitted'[k] = emitted[k]
          /\ queue' = queue
          /\ result_queues' = result_queues
          /\ \A w \in DOMAIN workers :
               IF workers[w].job = j
                 THEN /\ workers'[w].pc = IF shutdown_flag THEN "exited" ELSE "wait"
                      /\ ~ Busy(w)'
                 ELSE workers'[w] = workers[w]
    ]_vars

\* More jobs than there are workers have all failed, one of them in its
\* producer after events were pushed: a worker has run a job after a failure.
C15_Witness ==
  /\ Len(jobs) > max_workers
  /\ \A j \in DOMAIN jobs : jobs[j].status = FAILED
  /\ \E j \in DOMAIN jobs : Len(emitted[j]) > 0
  /\ ~ shutdown_flag

\* C16: every job in the dispatch queue or held by a worker is in the
\* registry and has its result queue in the map, and so has every job that
\* is Queued or Processing; hence the stream opened for a registered job
\* answers not-found only if the job has already ended.
C16_RegisteredBeforeDequeue ==
  /\ \A i \in DOMAIN queue :
       /\ queue[i] \in DOMAIN jobs
       /\ queue[i] \in result_queues
       /\ jobs[queue[i]].status = QUEUED
  /\ \A w \in DOMAIN workers :
       workers[w].pc \notin { "created", "wait", "exited" } =>
         /\ workers[w].job \in DOMAIN jobs
         /\ workers[w].job \in result_queues
  /\ \A j \in DOMAIN jobs :
       jobs[j].status \in { QUEUED, PROCESSING } => j \in result_queues
  /\ \A r \in Readers :
       readers[r].pc = "notfound" =>
         /\ readers[r].job \in DOMAIN jobs
         /\ Terminal(readers[r].job)

\* A stream request made while its job was still in the dispatch queue is
\* being served, and the job has since been taken by a worker.
C16_Witness ==
  \E r \in Readers :
    /\ readers[r].pc = "reading"
    /\ readers[r].at = QUEUED
    /\ \E w \in DOMAIN workers :
         workers[w].job = readers[r].job /\ workers[w].pc = "streaming"

C18_WorkerNeedsNoReader ==
  /\ \A j \in 1 .. MaxUnreadJobs :
       [] ( ( j \in DOMAIN jobs /\ jobs[j].status = PROCESSING ) =>
              <> ( /\ j \in DOMAIN jobs
                   /\ Terminal(j)
                   /\ chan[j] = put_log[j]
                   /\ chan[j] # << >>
                   /\ chan[j][Len(chan[j])] = EndSignal ) )
  /\ \A w \in 1 .. max_workers :
       [] ( ( w \in DOMAIN workers /\ Busy(w) ) =>
              <> ( w \in DOMAIN workers /\ ~ Busy(w) ) )

\* With no drain attached, a job has ended with its events and the end
\* signal in its result queue, and a worker holds a later job.
C18_Witness ==
  /\ \A r \in DOMAIN readers : readers[r].pc = "idle"
  /\ \E j \in DOMAIN jobs :
       /\ Terminal(j)
       /\ Len(chan[j]) > 2
       /\ chan[j] = put_log[j]
       /\ \E w \in DOMAIN workers : Busy(w) /\ workers[w].job > j

\* C19: at the step in which shutdown() returns, no job is Processing, no
\* worker holds a job, and every job a worker has dequeued has the end
\* signal as the last item written to its result queue.
C19_ShutdownReturnsAfterWrites ==
  [][ ( shutdown_pc # "returned" /\ shutdown_pc' = "returned" ) =>
        /\ \A j \in DOMAIN jobs' :
             /\ jobs'[j].status # PROCESSING
             /\ jobs'[j].status # QUEUED =>
                  /\ put_log'[j] # << >>
                  /\ put_log'[j][Len(put_log'[j])] = EndSignal
        /\ \A w \in DOMAIN workers' : ~ Busy(w)'
    ]_vars

\* shutdown() has returned after a job that pushed events has ended, and
\* the worker that ran it has left its loop.
C19_Witness ==
  /\ shutdown_pc = "returned"
  /\ \E j \in DOMAIN jobs : Terminal(j) /\ Len(put_log[j]) > 3
  /\ \A w \in DOMAIN workers : workers[w].pc = "exited"
  /\ workers # << >>

\* C20: once the shutdown flag is set, no step adds a job to the registry,
\* a result queue to the map or an item to the dispatch queue.
C20_NoSubmitAfterShutdown ==
  [][ shutdown_flag =>
        /\ DOMAIN jobs' = DOMAIN jobs
        /\ result_queues' \subseteq result_queues
        /\ Len(queue') <= Len(queue)
    ]_vars

\* C21: at the step in which a worker dispatches a job, the payload the job
\* holds, which is what the producer is called with, is the payload as it
\* was when the job was submitted.
C21_PayloadAsSubmitted ==
  [][ \A w \in DOMAIN workers :
        ( workers[w].pc = "dequeued" /\ workers'[w].pc # "dequeued" ) =>
          jobs[workers[w].job].payload = CallerPayload
    ]_vars

\* Workers that hold job j.
Owners(j) == { w \in DOMAIN workers : workers[w].job = j }

\* A job is in the dispatch queue once while Queued, held by exactly one
\* worker while Processing, and in neither place once it has ended.
OwnedOnce ==
  /\ \A i, k \in DOMAIN queue : queue[i] = queue[k] => i = k
  /\ \A j \in DOMAIN jobs :
       /\ Cardinality(Owners(j)) <= 1
       /\ jobs[j].status = QUEUED <=> \E i \in DOMAIN queue : queue[i] = j
       /\ jobs[j].status = PROCESSING <=> Owners(j) # {}

\* C22: a job is dequeued at most once and held by at most one worker at a
\* time, and only the worker that holds it (from the step in which it
\* dequeues it) changes the job's status, error and timestamps or writes to
\* its result queue.
C22_ExclusiveOwnership ==
  [][ /\ OwnedOnce'
      /\ \A j \in DOMAIN jobs :
           /\ jobs'[j] # jobs[j] =>
                \E w \in DOMAIN workers' :
                  /\ workers'[w] # workers[w]
                  /\ workers[w].job = j \/ workers'[w].job = j
                  /\ \A v \in (DOMAIN workers) \ { w } : workers'[v] = workers[v]
           /\ put_log'[j] # put_log[j] =>
                \E w \in DOMAIN workers :
                  /\ workers[w].job = j
                  /\ workers'[w] # workers[w]
    ]_vars

\* Two workers are in the producers of two different jobs while a third job
\* has already ended.
C22_Witness ==
  /\ \E v, w \in DOMAIN workers :
       /\ v # w
       /\ workers[v].pc = "streaming"
       /\ workers[w].pc = "streaming"
       /\ workers[v].job # workers[w].job
  /\ \E j \in DOMAIN jobs : Terminal(j)

\* C23: a job that is Queued, Processing or Completed has no error; the
\* error field is set only on a Failed job.
C23_ErrorOnlyWhenFailed ==
  \A j \in DOMAIN jobs :
    jobs[j].error # NoneVal => jobs[j].status = FAILED

\* One job has failed with its error recorded, and another has completed,
\* without error, although its stream carries the producer's Error event.
C23_Witness ==
  /\ \E j \in DOMAIN jobs :
       jobs[j].status = FAILED /\ jobs[j].error = ErrNoMetadata
  /\ \E j \in DOMAIN jobs :
       /\ jobs[j].status = COMPLETED
       /\ jobs[j].error = NoneVal
       /\ ErrorItems(j) # {}

\* C24: started_at is absent exactly while the job is Queued, and
\* completed_at is absent exactly while the job is Queued or Processing.
C24_TimestampsFollowStatus ==
  \A j \in DOMAIN jobs :
    /\ jobs[j].started_at = NoneVal <=> jobs[j].status = QUEUED
    /\ jobs[j].completed_at = NoneVal <=> jobs[j].status \in { QUEUED, PROCESSING }

\* Jobs in each stage: one Queued without timestamps, one Processing with
\* started_at alone, one ended with both.
C24_Witness ==
  /\ \E j \in DOMAIN jobs :
       /\ jobs[j].status = QUEUED
       /\ jobs[j].started_at = NoneVal
       /\ jobs[j].completed_at = NoneVal
  /\ \E j \in DOMAIN jobs :
       /\ jobs[j].status = PROCESSING
       /\ jobs[j].started_at # NoneVal
       /\ jobs[j].completed_at = NoneVal
  /\ \E j \in DOMAIN jobs :
       /\ Terminal(j)
       /\ jobs[j].started_at # NoneVal
       /\ jobs[j].completed_at # NoneVal

\* An item in the serialised form of a producer event: an SSE frame of a
\* StreamEvent, with a type of the closed set and a timestamp.
TypedEvent(item) ==
  /\ item.form = "sse"
  /\ item.type \in StreamEventType
  /\ item.ts > 0

\* C25: every item a drain has delivered is a typed event in the producer's
\* serialised form, the item for a job that failed in the worker and the
\* item for a missing result queue included.
C25_DeliveredItemsAreEvents ==
  \A r \in Readers :
    \A i \in DOMAIN readers[r].got : TypedEvent(readers[r].got[i])

\* Positions of the events of one type in what job j's producer emitted.
EventsOfType(j, type) ==
  { i \in DOMAIN emitted[j] : emitted[j][i].type = type }

\* The producer of job j ran with no documents loaded (it emitted events and
\* never the document search's tool call) and its backend call succeeded (it
\* emitted no Error event).
PlainRun(j) ==
  /\ jobs[j].task_type = "chat"
  /\ ended[j].out # "running"
  /\ emitted[j] # << >>
  /\ \A i \in EventsOfType(j, "tool_call") : emitted[j][i].a # "searching_documents"
  /\ EventsOfType(j, "error") = {}

\* C26: a chat job run with no documents loaded and a backend that succeeds
\* ends Completed; its stream has no Citation event and no source card, and
\* exactly one Done event, which is its last event.
C26_PlainRunEndsWithDone ==
  \A j \in DOMAIN jobs :
    PlainRun(j) =>
      /\ jobs[j].status = COMPLETED
      /\ EventsOfType(j, "citation") = {}
      /\ \A i \in EventsOfType(j, "ui_component") : emitted[j][i].a # "source_card"
      /\ EventsOfType(j, "done") = { Len(emitted[j]) }
      /\ emitted[j][Len(emitted[j])].n = 0
      /\ put_log[j] = emitted[j] \o << EndSignal >>

\* Such a job has completed after streaming a text chunk and an info card.
C26_Witness ==
  \E j \in DOMAIN jobs :
    /\ PlainRun(j)
    /\ jobs[j].status = COMPLETED
    /\ \E i \in EventsOfType(j, "text") : emitted[j][i].a = "chunk"
    /\ \E i \in EventsOfType(j, "ui_component") : emitted[j][i].a = "info_card"

\* Drain r reads the end signal of job j in this step.
ReadsEndSignal(r, j) ==
  /\ readers[r].pc = "reading"
  /\ readers[r].job = j
  /\ chan[j] # << >>
  /\ Head(chan[j]) = EndSignal
  /\ chan'[j] = Tail(chan[j])

\* C27: a step removes a job's result queue from the map exactly if in that
\* step a drain of the job reads the end signal; no other step (a worker
\* finishing the job, a drain abandoned, shutdown) removes it, and no step
\* adds an entry for a job already submitted.
C27_ReleasedOnlyByFullDrain ==
  [][ /\ \A j \in result_queues :
           j \notin result_queues' <=> \E r \in Readers : ReadsEndSignal(r, j)
      /\ \A j \in result_queues' \ result_queues : j \notin DOMAIN jobs
    ]_vars

\* A job has ended, its only drain was abandoned before the end signal, and
\* shutdown has returned: the result queue is still in the map.
C27_Witness ==
  /\ shutdown_pc = "returned"
  /\ \E r \in Readers :
       /\ readers[r].pc = "abandoned"
       /\ Terminal(readers[r].job)
       /\ readers[r].job \in result_queues
       /\ chan[readers[r].job] # << >>
       /\ Popped(readers[r].job) = Len(readers[r].got)

\* What the drains of job j called by clients 1 .. d have received, in the
\* order of the clients (which is the order of their calls).
RECURSIVE Received(_, _)
Received(j, d) ==
  IF d = 0
    THEN << >>
    ELSE Received(j, d - 1)
         \o ( IF Attached(d) /\ readers[d].job = j THEN readers[d].got ELSE << >> )

\* C28: when a drain of a job was abandoned after it had received some
\* events and a later drain of the same job runs, the job's result queue is
\* still in the map while the later drain reads, what the drains have
\* received, taken in the order of the drains, is always an initial part of
\* what was written to the queue (so nothing is delivered twice or skipped),
\* and when the later drain terminates they have together received
\* everything written before the end signal.
C28_RestartWithoutReplay ==
  \A c, d \in DOMAIN readers :
    ( /\ c < d
      /\ readers[c].pc = "abandoned"
      /\ readers[d].pc \in { "reading", "done" }
      /\ readers[d].job = readers[c].job ) =>
      LET j == readers[c].job IN
        /\ IsPrefix(Received(j, d), put_log[j])
        /\ readers[d].pc = "reading" => j \in result_queues
        /\ readers[d].pc = "done" =>
             Received(j, d) \o << EndSignal >> = put_log[j]

\* A drain was abandoned after some events and a later drain of the same job
\* has terminated with the remaining ones.
C28_Witness ==
  \E c, d \in DOMAIN readers :
    /\ c < d
    /\ readers[c].pc = "abandoned"
    /\ readers[d].pc = "done"
    /\ readers[d].job = readers[c].job
    /\ Len(readers[c].got) > 1
    /\ Len(readers[d].got) > 1

\* Drains c and d read the same result queue at the same time, or did so
\* until one of them read the end signal.
Concurrent(c, d) ==
  /\ c # d
  /\ readers[c].job = readers[d].job
  /\ readers[c].pc \in { "reading", "done" }
  /\ readers[d].pc \in { "reading", "done" }

\* C29: of two drains active on one job's result queue, each item written to
\* the queue goes to at most one: no item is in what both have received, and
\* together they have received no more than was taken from the queue.
C29_NoDuplicateDelivery ==
  \A c, d \in DOMAIN readers :
    Concurrent(c, d) =>
      /\ \A i \in DOMAIN readers[c].got : \A k \in DOMAIN readers[d].got :
           readers[c].got[i] # readers[d].got[k]
      /\ Len(readers[c].got) + Len(readers[d].got) <= Popped(readers[c].job)
      /\ \A i \in DOMAIN readers[c].got :
           \E k \in DOMAIN put_log[readers[c].job] :
             put_log[readers[c].job][k] = readers[c].got[i]

\* Two drains attached while the job was processing have each received some
\* of its events, and one of them has read the end signal.
C29_Witness ==
  \E c, d \in DOMAIN readers :
    /\ Concurrent(c, d)
    /\ readers[c].at = PROCESSING
    /\ readers[d].at = PROCESSING
    /\ readers[c].pc = "done"
    /\ Len(readers[c].got) > 1
    /\ Len(readers[d].got) > 1

\* C30: shutdown() eventually returns when every producer invocation
\* terminates, also when it is called while more jobs are Queued than there
\* are workers: no job left in the dispatch queue keeps it waiting for ever.
C30_ShutdownReturns ==
  [] ( ( shutdown_pc = "joining" /\ Len(queue) > max_workers ) =>
         <> ( shutdown_pc = "returned" ) )

\* C31: after the shutdown flag is set, every worker eventually leaves its
\* loop: an idle one when its wait for a job times out, a busy one when its
\* current job is finished.
C31_WorkersLeaveLoop ==
  \A w \in WorkerIds :
    [] ( ( shutdown_flag /\ w \in DOMAIN workers ) =>
           <> ( w \in DOMAIN workers /\ workers[w].pc = "exited" ) )

\* Shutdown found one worker busy and one idle, and both have left the loop.
C31_Witness ==
  /\ shutdown_flag
  /\ workers # << >>
  /\ \A w \in DOMAIN workers : workers[w].pc = "exited"
  /\ \E j \in DOMAIN jobs : Terminal(j)
  /\ queue = << >>

\* C32: a status lookup changes nothing in the service and answers with the
\* registered job's status; a step of a drain (its call, a get, its end)
\* changes no job's snapshot, however many drains are attached or finished.
C32_LookupsAndDrainsKeepJobs ==
  [][ /\ ( readers' # readers ) =>
           /\ DOMAIN jobs' = DOMAIN jobs
           /\ \A j \in DOMAIN jobs : to_dict(jobs'[j]) = to_dict(jobs[j])
      /\ ( readers'[Observer] # readers[Observer] ) =>
           /\ UNCHANGED << jobs, queue, unfinished, result_queues, chan,
                           workers_started, shutdown_flag, shutdown_pc, workers,
                           emitted, put_log, ended >>
           /\ \A c \in Clients : readers'[c] = readers[c]
           /\ readers'[Observer].pc = "status200"
           /\ readers'[Observer].at = jobs[readers'[Observer].job].status
    ]_vars

\* Every client is attached to the job whose status has just been returned
\* as Processing.
C32_Witness ==
  /\ readers[Observer].pc = "status200"
  /\ readers[Observer].at = PROCESSING
  /\ \A c \in Clients :
       /\ readers[c].pc = "reading"
       /\ readers[c].job = readers[Observer].job
       /\ readers[c].got # << >>

\* C33: the registry is append-only: a registered job id stays registered
\* with the same task_type in every later state, and the job ids that have a
\* result queue are always registered ids.
C33_RegistryAppendOnly ==
  [][ /\ \A j \in DOMAIN jobs :
           /\ j \in DOMAIN jobs'
           /\ jobs'[j].task_type = jobs[j].task_type
      /\ result_queues' \subseteq DOMAIN jobs'
    ]_vars

\* A finished job whose result queue has been deleted by its drain is still
\* registered after shutdown() has returned.
C33_Witness ==
  /\ shutdown_pc = "returned"
  /\ \E j \in DOMAIN jobs :
       /\ Terminal(j)
       /\ j \notin result_queues
       /\ \E r \in DOMAIN readers : readers[r].pc = "done" /\ readers[r].job = j

\* C34: once a chat job's stream has ended, every tool call event with status
\* in_progress is followed in the job's event sequence by a tool call event
\* of the same stage with status completed or error, on the failure path as
\* on the success path.
C34_ToolCallsAreClosed ==
  \A j \in DOMAIN jobs :
    ( jobs[j].task_type = "chat" /\ ended[j].out # "running" ) =>
      \A i \in EventsOfType(j, "tool_call") :
        emitted[j][i].b = "in_progress" =>
          \E k \in EventsOfType(j, "tool_call") :
            /\ k > i
            /\ emitted[j][k].a = emitted[j][i].a
            /\ emitted[j][k].b \in { "completed", "error" }

====
